---- MODULE Spec2Model ----
(***************************************************************************)
(* Healthcare IoT microprocessor project.                                  *)
(*                                                                         *)
(*   Phase3_Performance_Analysis/analyze_results.py : the analysis script  *)
(*       (load_dvfs_results, generate_sample_dvfs_data, the plot_*         *)
(*       functions and generate_results_table run in sequence by           *)
(*       generate_all_figures)                                             *)
(*   Phase2_Implementation/gem5_configs/healthcare_iot_config.py : the     *)
(*       system configuration script (HealthcareIoTSystem.__init__ and the *)
(*       statements that instantiate and run the simulation)               *)
(*                                                                         *)
(* Number representation.  The scripts compute with Python floats; the     *)
(* model computes with exact integers and fractions:                       *)
(*   voltage            tenths of a volt          (0.6 V  is 6)            *)
(*   frequency          MHz                       (50 MHz is 50)           *)
(*   base_ipc           1/IpcDen                  (0.6625 is 5300)         *)
(*   dynamic_power, static_power, avg_power (unrounded)    1/PowerDen mW   *)
(*   metrics.ipc        thousandths               (round(x, 3))            *)
(*   metrics.avg_power  tenths of a mW            (round(x, 1))            *)
(*   metrics.energy_per_inst   1e-4 uJ            (round(x, 4))            *)
(*   metrics.total_energy      1e-2 uJ            (round(x, 2))            *)
(*   metrics.sim_seconds       1e-6 s             (round(x, 6))            *)
(*   metrics.icache_hit_rate, metrics.dcache_hit_rate                      *)
(*                      [base, draw]: base in 1e-4, plus the draw-th value *)
(*                      of the np.random stream (draw 0: no draw)          *)
(* A fraction is a pair <<numerator, denominator>> with denominator > 0.   *)
(***************************************************************************)
EXTENDS Integers, Sequences, FiniteSets, TLC

VARIABLES
    \* ---- analyze_results.py
    pc,              \* position in generate_all_figures
    results,         \* the list of result records
    genlog,          \* generate_sample_dvfs_data: the locals of each iteration
    gi, gj,          \* generate_sample_dvfs_data: loop indices (point, workload)
    dvfs_points,     \* generate_sample_dvfs_data: its local DVFS table
    fig2,            \* plot_energy_efficiency: frequencies, voltages, avg_epi, optimal_idx
    fig3,            \* plot_ipc_comparison: ipcs, labels
    fig5,            \* plot_power_breakdown: frequencies, dynamic_power, static_power
    fig6,            \* plot_dvfs_efficiency_curve: frequencies, efficiencies, voltages, optimal_idx
    rng,             \* np.random: the number of draws made from its stream so far
    results_file,    \* the results file as load_dvfs_results found it: exists, contents
    table_results,   \* generate_results_table: its local results
    table_data,      \* generate_results_table: the rows of Table 1
    \* ---- healthcare_iot_config.py
    cpc,             \* position in HealthcareIoTSystem.__init__ and the script after it
    objects,         \* the SimObjects created so far
    children,        \* attribute assignments that attach one SimObject to another
    port_kind,       \* declared ports: <<object, port>> -> "single" | "vector"
    edges,           \* port connections, each <<mem-side port, cpu-side port>>
    clk_domain,      \* system clock domain: clock and voltage
    cpu_clk_domain,  \* CPU clock domain: clock and voltage
    sys_dvfs_points, \* self.dvfs_points
    cpu_params,      \* MinorCPU pipeline parameters
    power_flags,     \* enable_clock_gating, enable_power_gating
    \* ---- the power model of lines 77-80 evaluated at a chosen input
    pm_in,           \* [voltage, frequency, ipc]
    pm_out,          \* [dynamic_power, static_power, avg_power]
    pm_prev          \* the evaluation before this one: [in, out]

tvars == <<table_results, table_data>>
avars == <<pc, results, genlog, gi, gj, dvfs_points, fig2, fig3, fig5, fig6,
           rng, results_file, tvars>>
cvars == <<cpc, objects, children, port_kind, edges, clk_domain, cpu_clk_domain,
           sys_dvfs_points, cpu_params, power_flags>>
pvars == <<pm_in, pm_out, pm_prev>>
vars  == <<avars, cvars, pvars>>

(***************************************************************************)
(* Bounds of the model.                                                    *)
(***************************************************************************)
\* longest result list a results file holds
MaxRecords == 3
\* power-model inputs: voltage steps, frequency steps and ipc steps up to these
MaxVolt == 4
MaxFreq == 4
MaxIpc == 3

(***************************************************************************)
(* Arithmetic helpers.                                                     *)
(***************************************************************************)
IpcDen   == 80 * 100
PowerDen == 100 * IpcDen

RECURSIVE GCD(_, _)
GCD(a, b) == IF b = 0 THEN a ELSE GCD(b, a % b)

Norm(x) == LET g == GCD(x[1], x[2]) IN IF g = 0 THEN x ELSE <<x[1] \div g, x[2] \div g>>

\* product of two fractions, cancelling crosswise before multiplying
FMul(x, y) ==
    LET a == Norm(x)
        b == Norm(y)
        g1 == GCD(a[1], b[2])
        g2 == GCD(b[1], a[2])
        h1 == IF g1 = 0 THEN 1 ELSE g1
        h2 == IF g2 = 0 THEN 1 ELSE g2
    IN  <<(a[1] \div h1) * (b[1] \div h2), (a[2] \div h2) * (b[2] \div h1)>>

FDiv(x, y) == FMul(x, <<y[2], y[1]>>)

FracLess(x, y) == x[1] * y[2] < y[1] * x[2]
FracEq(x, y)   == x[1] * y[2] = y[1] * x[2]

\* round(x, ndigits) with x = n/d >= 0 and the result in units of 10^-ndigits
\* already folded into n/d: the nearest integer to n/d.  Where n/d lies exactly
\* half way between two integers the float's binary representation decides,
\* so both neighbours are possible.
Round(n, d) ==
    LET q == n \div d
        r == n % d
    IN  IF 2 * r < d THEN {q}
        ELSE IF 2 * r > d THEN {q + 1}
        ELSE {q, q + 1}

RoundFrac(x, scale) == LET y == FMul(x, <<scale, 1>>) IN Round(y[1], y[2])

RECURSIVE SumSeq(_)
SumSeq(s) == IF s = <<>> THEN 0 ELSE Head(s) + SumSeq(Tail(s))

(***************************************************************************)
(* generate_sample_dvfs_data                                               *)
(***************************************************************************)
IDLE     == "idle_scenario"
BASELINE == "healthcare_monitor_test"

sample_dvfs_points ==
    << <<6, 50>>, <<7, 100>>, <<8, 200>>, <<9, 400>>, <<10, 600>>, <<12, 800>> >>

\* mutant of workloads: one workload listed twice
workloads_repeated ==
    << "healthcare_monitor_test", "intensive_ecg_processing", "mixed_workload",
       "mixed_workload", "idle_scenario", "stress_test" >>

workloads ==
    << "healthcare_monitor_test", "intensive_ecg_processing", "burst_transmission",
       "mixed_workload", "idle_scenario", "stress_test" >>

\* mutant of base_ipc: a frequency slope of 2.0 where the code has 0.20
base_ipc_steep(frequency, workload) ==
    ((260 + frequency) \div 5) *
        (IF workload = "intensive_ecg_processing" THEN 95
         ELSE IF workload = "idle_scenario" THEN 30
         ELSE IF workload = "stress_test" THEN 105
         ELSE 100)

\* base_ipc = 0.65 + (frequency / 800) * 0.20, then the workload's factor.
\* 0.65 + f/4000 = ((2600 + f)/50)/80, exact for the table's frequencies, which
\* are multiples of 50; the factor is in hundredths.
base_ipc(frequency, workload) ==
    ((2600 + frequency) \div 50) *
        (IF workload = "intensive_ecg_processing" THEN 95
         ELSE IF workload = "idle_scenario" THEN 30
         ELSE IF workload = "stress_test" THEN 105
         ELSE 100)

\* dynamic_power = (voltage ** 2) * frequency * base_ipc
dynamic_power(voltage, frequency, ipc) == (voltage * voltage) * frequency * ipc

\* static_power = voltage * 5   (volts * 5 mW, in units of 1/PowerDen mW)
static_power(voltage) == voltage * 5 * (PowerDen \div 10)

\* mutant of avg_power: the leakage is subtracted
avg_power_minus_static(voltage, frequency, ipc) ==
    dynamic_power(voltage, frequency, ipc) - static_power(voltage)

\* avg_power = dynamic_power + static_power
avg_power(voltage, frequency, ipc) ==
    dynamic_power(voltage, frequency, ipc) + static_power(voltage)

sim_insts(workload) ==
    IF workload = "stress_test" THEN 500000
    ELSE IF workload = "idle_scenario" THEN 50000
    ELSE 200000

\* sim_seconds = sim_insts / (frequency * 1e6 * base_ipc), a fraction of a second
sim_seconds(insts, frequency, ipc) ==
    FDiv(<<insts, 1>>, FMul(<<frequency * 1000000, 1>>, <<ipc, IpcDen>>))

\* mutant of total_energy: the product of power and time alone
total_energy_unscaled(power, seconds) == FMul(<<power, PowerDen>>, seconds)

\* total_energy = avg_power * sim_seconds * 1000, a fraction
total_energy(power, seconds) == FMul(FMul(<<power, PowerDen>>, seconds), <<1000, 1>>)

\* energy_per_inst = total_energy / sim_insts
energy_per_inst(energy, insts) == FDiv(energy, <<insts, 1>>)

\* the locals of one iteration of the two loops
GenLocals(voltage, frequency, workload) ==
    LET b  == base_ipc(frequency, workload)
        n  == sim_insts(workload)
        p  == avg_power(voltage, frequency, b)
        s  == sim_seconds(n, frequency, b)
        e  == total_energy(p, s)
    IN  [ voltage |-> voltage, frequency |-> frequency, workload |-> workload,
          base_ipc |-> b,
          dynamic_power |-> dynamic_power(voltage, frequency, b),
          static_power |-> static_power(voltage),
          avg_power |-> p,
          sim_insts |-> n,
          sim_seconds |-> s,
          total_energy |-> e,
          energy_per_inst |-> energy_per_inst(e, n) ]

\* the records results.append can add for these locals (one per rounding outcome).
\* cpi and peak_power are never read by the functions modelled here and are not
\* carried; the two cache hit rates are added by with_cache_hit_rates.
GenRecords(l) ==
    { [ voltage |-> l.voltage, frequency |-> l.frequency, workload |-> l.workload,
        metrics |-> [ ipc |-> i, avg_power |-> p, total_energy |-> te,
                      energy_per_inst |-> e, sim_insts |-> l.sim_insts,
                      sim_seconds |-> ss ] ] :
        i  \in Round(l.base_ipc * 1000, IpcDen),
        p  \in RoundFrac(<<l.avg_power, PowerDen>>, 10),
        te \in RoundFrac(l.total_energy, 100),
        e  \in RoundFrac(l.energy_per_inst, 10000),
        ss \in RoundFrac(l.sim_seconds, 1000000) }

\* lines 95-96 and 112-113: the two cache hit rates, each a base value (1e-4)
\* plus a draw of np.random.uniform(-0.01, 0.01).  A draw is named by its
\* position in np.random's stream, which the script never seeds or rewinds:
\* draw k is the k-th value the stream yields, and draw 0 is no draw at all.
with_cache_hit_rates(r, drawn) ==
    [ r EXCEPT !.metrics =
        [ f \in DOMAIN r.metrics \cup { "icache_hit_rate", "dcache_hit_rate" } |->
            IF f = "icache_hit_rate" THEN [ base |-> 9450, draw |-> drawn + 1 ]
            ELSE IF f = "dcache_hit_rate" THEN [ base |-> 9550, draw |-> drawn + 2 ]
            ELSE r.metrics[f] ] ]

(***************************************************************************)
(* Contents a results file can have (json.load): any list of at most       *)
(* MaxRecords records over a few operating points, workloads and metrics.  *)
(***************************************************************************)
FilePoints    == { <<6, 50>>, <<7, 100>>, <<12, 800>> }
FileWorkloads == { "healthcare_monitor_test", "idle_scenario", "stress_test" }
FileMetrics   ==
    { [ ipc |-> 600, avg_power |-> 150, energy_per_inst |-> 20,
        icache_hit_rate |-> [ base |-> 9450, draw |-> 0 ],
        dcache_hit_rate |-> [ base |-> 9550, draw |-> 0 ] ],
      [ ipc |-> 800, avg_power |-> 100, energy_per_inst |-> 40,
        icache_hit_rate |-> [ base |-> 9450, draw |-> 0 ],
        dcache_hit_rate |-> [ base |-> 9550, draw |-> 0 ] ] }

FileRecords ==
    { [ voltage |-> p[1], frequency |-> p[2], workload |-> w, metrics |-> m ] :
        p \in FilePoints, w \in FileWorkloads, m \in FileMetrics }

FileContents == UNION { [1..n -> FileRecords] : n \in 0..MaxRecords }

(***************************************************************************)
(* Helpers of the plot functions.                                          *)
(***************************************************************************)
\* tuple order of Python on (voltage, frequency)
TupleLess(p, q) == p[1] < q[1] \/ (p[1] = q[1] /\ p[2] < q[2])

RECURSIVE SortSet(_)
SortSet(S) ==
    IF S = {} THEN <<>>
    ELSE LET m == CHOOSE p \in S : \A q \in S : ~TupleLess(q, p)
         IN  <<m>> \o SortSet(S \ {m})

\* sorted(list(set([(r["voltage"], r["frequency"]) for r in results])))
SortedPoints(rs) == SortSet({ <<rs[i].voltage, rs[i].frequency>> : i \in 1..Len(rs) })

\* [r for r in results if r["voltage"] == voltage and r["frequency"] == frequency]
point_results(rs, voltage, frequency) ==
    SelectSeq(rs, LAMBDA r : r.voltage = voltage /\ r.frequency = frequency)

\* mutant of active_results: idle records are kept
active_results_with_idle(prs) == prs

\* [r for r in point_results if r["workload"] != "idle_scenario"]
active_results(prs) == SelectSeq(prs, LAMBDA r : r.workload # IDLE)

\* np.mean of a non-empty list: its sum over its length
Mean(xs) == <<SumSeq(xs), Len(xs)>>

\* next((r for r in results if <point and workload match>), None):
\* the index of the first match, 0 for None
RECURSIVE FirstFrom(_, _, _, _, _)
FirstFrom(rs, i, voltage, frequency, workload) ==
    IF i > Len(rs) THEN 0
    ELSE IF rs[i].voltage = voltage /\ rs[i].frequency = frequency
            /\ rs[i].workload = workload THEN i
    ELSE FirstFrom(rs, i + 1, voltage, frequency, workload)

\* mutant of point_result: the first record at the point, whatever its workload
RECURSIVE FirstAtPointFrom(_, _, _, _)
FirstAtPointFrom(rs, i, voltage, frequency) ==
    IF i > Len(rs) THEN 0
    ELSE IF rs[i].voltage = voltage /\ rs[i].frequency = frequency THEN i
    ELSE FirstAtPointFrom(rs, i + 1, voltage, frequency)

point_result_any_workload(rs, voltage, frequency, workload) ==
    FirstAtPointFrom(rs, 1, voltage, frequency)

point_result(rs, voltage, frequency, workload) ==
    FirstFrom(rs, 1, voltage, frequency, workload)

\* np.argmin / np.argmax of a non-empty list of fractions: the first index
\* holding the extreme value (indices from 1)
RECURSIVE ArgMinFrom(_, _, _)
ArgMinFrom(xs, i, best) ==
    IF i > Len(xs) THEN best
    ELSE ArgMinFrom(xs, i + 1, IF FracLess(xs[i], xs[best]) THEN i ELSE best)

RECURSIVE ArgMaxFrom(_, _, _)
ArgMaxFrom(xs, i, best) ==
    IF i > Len(xs) THEN best
    ELSE ArgMaxFrom(xs, i + 1, IF FracLess(xs[best], xs[i]) THEN i ELSE best)

\* mutant of argmin: the index of the largest value
argmin_largest(xs) == ArgMaxFrom(xs, 2, 1)

argmin(xs) == ArgMinFrom(xs, 2, 1)

\* mutant of argmax: the last index holding the largest value
RECURSIVE ArgMaxLastFrom(_, _, _)
ArgMaxLastFrom(xs, i, best) ==
    IF i > Len(xs) THEN best
    ELSE ArgMaxLastFrom(xs, i + 1, IF FracLess(xs[i], xs[best]) THEN best ELSE i)

argmax_last(xs) == ArgMaxLastFrom(xs, 2, 1)

argmax(xs) == ArgMaxFrom(xs, 2, 1)

\* sorted(list(set([r["workload"] for r in results]))): the labels in string order
AlphabeticalWorkloads ==
    << "burst_transmission", "healthcare_monitor_test", "idle_scenario",
       "intensive_ecg_processing", "mixed_workload", "stress_test" >>

SortedWorkloads(rs) ==
    SelectSeq(AlphabeticalWorkloads, LAMBDA w : \E i \in 1..Len(rs) : rs[i].workload = w)

NoFigure == [ error |-> FALSE ]
NoFile   == [ exists |-> FALSE, contents |-> <<>> ]

(***************************************************************************)
(* plot_energy_efficiency (Figure 2)                                       *)
(***************************************************************************)
\* the loop over dvfs_points: one (frequency, voltage, mean energy per
\* instruction) entry per point that has a non-idle record
RECURSIVE EpiLoop(_, _, _, _)
EpiLoop(rs, pts, k, acc) ==
    IF k > Len(pts) THEN acc
    ELSE LET voltage   == pts[k][1]
             frequency == pts[k][2]
             active    == active_results(point_results(rs, voltage, frequency))
             epis      == [ i \in 1..Len(active) |-> active[i].metrics.energy_per_inst ]
         IN  EpiLoop(rs, pts, k + 1,
                 IF active # <<>>
                 THEN [ frequencies |-> Append(acc.frequencies, frequency),
                        voltages    |-> Append(acc.voltages, voltage),
                        avg_epi     |-> Append(acc.avg_epi, Mean(epis)) ]
                 ELSE acc)

\* the whole function: max(voltages) and np.argmin(avg_epi) raise ValueError on
\* an empty list
energy_efficiency(rs) ==
    LET t == EpiLoop(rs, SortedPoints(rs), 1,
                     [ frequencies |-> <<>>, voltages |-> <<>>, avg_epi |-> <<>> ])
    IN  IF t.voltages = <<>>
        THEN [ error |-> TRUE ]
        ELSE [ error |-> FALSE, frequencies |-> t.frequencies, voltages |-> t.voltages,
               avg_epi |-> t.avg_epi, optimal_idx |-> argmin(t.avg_epi) ]

(***************************************************************************)
(* plot_ipc_comparison (Figure 3)                                          *)
(***************************************************************************)
RECURSIVE IpcLoop(_, _, _, _)
IpcLoop(rs, ws, k, acc) ==
    IF k > Len(ws) THEN acc
    ELSE LET i == point_result(rs, 12, 800, ws[k])
         IN  IpcLoop(rs, ws, k + 1,
                 IF i # 0
                 THEN [ ipcs   |-> Append(acc.ipcs, rs[i].metrics.ipc),
                        labels |-> Append(acc.labels, ws[k]) ]
                 ELSE acc)

\* max(ipcs) raises ValueError on an empty list
ipc_comparison(rs) ==
    LET t == IpcLoop(rs, SortedWorkloads(rs), 1, [ ipcs |-> <<>>, labels |-> <<>> ])
    IN  IF t.ipcs = <<>>
        THEN [ error |-> TRUE ]
        ELSE [ error |-> FALSE, ipcs |-> t.ipcs, labels |-> t.labels ]

(***************************************************************************)
(* plot_power_breakdown (Figure 5)                                         *)
(***************************************************************************)
\* mutant of static_p: another leakage coefficient than the generator's
static_p_other_coefficient(voltage) == voltage * 4

\* static_p = voltage * 5   (volts * 5 mW, in tenths of a mW)
static_p(voltage) == voltage * 5

\* dynamic_p = total_power - static_p
dynamic_p(total_power, voltage) == total_power - static_p(voltage)

RECURSIVE BreakdownLoop(_, _, _, _)
BreakdownLoop(rs, pts, k, acc) ==
    IF k > Len(pts) THEN acc
    ELSE LET voltage   == pts[k][1]
             frequency == pts[k][2]
             i         == point_result(rs, voltage, frequency, BASELINE)
         IN  BreakdownLoop(rs, pts, k + 1,
                 IF i # 0
                 THEN [ frequencies   |-> Append(acc.frequencies, <<frequency, voltage>>),
                        dynamic_power |-> Append(acc.dynamic_power,
                                            dynamic_p(rs[i].metrics.avg_power, voltage)),
                        static_power  |-> Append(acc.static_power, static_p(voltage)) ]
                 ELSE acc)

power_breakdown(rs) ==
    LET t == BreakdownLoop(rs, SortedPoints(rs), 1,
                 [ frequencies |-> <<>>, dynamic_power |-> <<>>, static_power |-> <<>> ])
    IN  [ error |-> FALSE, frequencies |-> t.frequencies,
          dynamic_power |-> t.dynamic_power, static_power |-> t.static_power ]

(***************************************************************************)
(* plot_dvfs_efficiency_curve (Figure 6)                                   *)
(***************************************************************************)
\* efficiency = (ipc / power) * 1000, with ipc in thousandths and power in
\* tenths of a mW: (ipc/1000) / (power/10) * 1000 = 10 * ipc / power
efficiency(ipc, power) == <<10 * ipc, power>>

RECURSIVE EfficiencyLoop(_, _, _, _)
EfficiencyLoop(rs, pts, k, acc) ==
    IF k > Len(pts) \/ acc.error THEN acc
    ELSE LET voltage   == pts[k][1]
             frequency == pts[k][2]
             i         == point_result(rs, voltage, frequency, BASELINE)
         IN  EfficiencyLoop(rs, pts, k + 1,
                 IF i = 0 THEN acc
                 ELSE IF rs[i].metrics.avg_power = 0
                 THEN [ acc EXCEPT !.error = TRUE ]     \* ZeroDivisionError
                 ELSE [ error        |-> FALSE,
                        frequencies  |-> Append(acc.frequencies, frequency),
                        efficiencies |-> Append(acc.efficiencies,
                                           efficiency(rs[i].metrics.ipc,
                                                      rs[i].metrics.avg_power)),
                        voltages     |-> Append(acc.voltages, voltage) ])

\* np.argmax(efficiencies) raises ValueError on an empty list
dvfs_efficiency_curve(rs) ==
    LET t == EfficiencyLoop(rs, SortedPoints(rs), 1,
                 [ error |-> FALSE, frequencies |-> <<>>, efficiencies |-> <<>>,
                   voltages |-> <<>> ])
    IN  IF t.error \/ t.efficiencies = <<>>
        THEN [ error |-> TRUE ]
        ELSE [ error |-> FALSE, frequencies |-> t.frequencies,
               efficiencies |-> t.efficiencies, voltages |-> t.voltages,
               optimal_idx |-> argmax(t.efficiencies) ]

(***************************************************************************)
(* The analysis script: generate_all_figures.                              *)
(* pc names the call that runs next; "error" is an uncaught exception.     *)
(***************************************************************************)
AnalysisInit ==
    /\ pc = "load"
    /\ results = <<>>
    /\ genlog = <<>>
    /\ gi = 0
    /\ gj = 0
    /\ dvfs_points = <<>>
    /\ fig2 = NoFigure
    /\ fig3 = NoFigure
    /\ fig5 = NoFigure
    /\ fig6 = NoFigure
    /\ rng = 0
    /\ results_file = NoFile
    /\ table_results = <<>>
    /\ table_data = <<>>

\* load_dvfs_results, the results file exists: json.load(f)
load_dvfs_results_file ==
    /\ pc = "load"
    /\ \E rs \in FileContents :
          /\ results_file' = [ exists |-> TRUE, contents |-> rs ]
          /\ results' = rs
    /\ pc' = "fig1"
    /\ UNCHANGED <<genlog, gi, gj, dvfs_points, fig2, fig3, fig5, fig6,
                   rng, tvars, cvars, pvars>>

\* load_dvfs_results, the results file is missing: generate_sample_dvfs_data()
\* is entered (its table and workload list are set, results = [])
load_dvfs_results_missing ==
    /\ pc = "load"
    /\ pc' = "generate"
    /\ dvfs_points' = sample_dvfs_points
    /\ results' = <<>>
    /\ genlog' = <<>>
    /\ gi' = 1
    /\ gj' = 1
    /\ UNCHANGED <<fig2, fig3, fig5, fig6,
                   rng, results_file, tvars, cvars, pvars>>

\* one iteration of the nested loops of generate_sample_dvfs_data; after the
\* last one the function returns results to generate_all_figures
generate_sample_dvfs_data ==
    /\ pc = "generate"
    /\ gi <= Len(dvfs_points)
    /\ LET l == GenLocals(dvfs_points[gi][1], dvfs_points[gi][2], workloads[gj])
       IN  /\ \E r \in GenRecords(l) :
                 results' = Append(results, with_cache_hit_rates(r, rng))
           /\ genlog' = Append(genlog, l)
    /\ rng' = rng + 2
    /\ IF gj < Len(workloads)
       THEN /\ gj' = gj + 1
            /\ gi' = gi
            /\ pc' = pc
       ELSE /\ gj' = 1
            /\ gi' = gi + 1
            /\ pc' = IF gi < Len(dvfs_points) THEN pc ELSE "fig1"
    /\ UNCHANGED <<dvfs_points, fig2, fig3, fig5, fig6,
                   results_file, tvars, cvars, pvars>>

\* Figure 1 and Figure 4 draw from results and keep nothing
plot_dvfs_power_performance ==
    /\ pc = "fig1"
    /\ pc' = "fig2"
    /\ UNCHANGED <<results, genlog, gi, gj, dvfs_points, fig2, fig3, fig5, fig6,
                   rng, results_file, tvars, cvars, pvars>>

plot_energy_efficiency ==
    /\ pc = "fig2"
    /\ fig2' = energy_efficiency(results)
    /\ pc' = IF fig2'.error THEN "error" ELSE "fig3"
    /\ UNCHANGED <<results, genlog, gi, gj, dvfs_points, fig3, fig5, fig6,
                   rng, results_file, tvars, cvars, pvars>>

plot_ipc_comparison ==
    /\ pc = "fig3"
    /\ fig3' = ipc_comparison(results)
    /\ pc' = IF fig3'.error THEN "error" ELSE "fig4"
    /\ UNCHANGED <<results, genlog, gi, gj, dvfs_points, fig2, fig5, fig6,
                   rng, results_file, tvars, cvars, pvars>>

plot_cache_performance ==
    /\ pc = "fig4"
    /\ pc' = "fig5"
    /\ UNCHANGED <<results, genlog, gi, gj, dvfs_points, fig2, fig3, fig5, fig6,
                   rng, results_file, tvars, cvars, pvars>>

plot_power_breakdown ==
    /\ pc = "fig5"
    /\ fig5' = power_breakdown(results)
    /\ pc' = "fig6"
    /\ UNCHANGED <<results, genlog, gi, gj, dvfs_points, fig2, fig3, fig6,
                   rng, results_file, tvars, cvars, pvars>>

plot_dvfs_efficiency_curve ==
    /\ pc = "fig6"
    /\ fig6' = dvfs_efficiency_curve(results)
    /\ pc' = IF fig6'.error THEN "error" ELSE "table"
    /\ UNCHANGED <<results, genlog, gi, gj, dvfs_points, fig2, fig3, fig5,
                   rng, results_file, tvars, cvars, pvars>>

(***************************************************************************)
(* generate_results_table (Table 1)                                        *)
(***************************************************************************)
selected_points == << <<6, 50>>, <<8, 200>>, <<10, 600>>, <<12, 800>> >>

selected_workloads ==
    << "healthcare_monitor_test", "intensive_ecg_processing", "mixed_workload",
       "stress_test" >>

\* the digits of n, at least width of them
RECURSIVE Digits(_, _)
Digits(n, width) ==
    IF width <= 1 /\ n < 10 THEN ToString(n)
    ELSE Digits(n \div 10, width - 1) \o ToString(n % 10)

\* f"{x:.<digits>f}" of a value x >= 0 held in units of 10^-digits
fixed(n, digits) ==
    LET scale == IF digits = 1 THEN 10 ELSE IF digits = 3 THEN 1000 ELSE 10000
    IN  Digits(n \div scale, 1) \o "." \o Digits(n % scale, digits)

\* f"{voltage}V/{frequency}MHz": the float's shortest repr, as 0.6 or 1.0
dvfs_label(voltage, frequency) ==
    fixed(voltage, 1) \o "V/" \o ToString(frequency) \o "MHz"

\* workload.replace("_", " ").title() of the selected workloads
title(workload) ==
    IF workload = "healthcare_monitor_test" THEN "Healthcare Monitor Test"
    ELSE IF workload = "intensive_ecg_processing" THEN "Intensive Ecg Processing"
    ELSE IF workload = "mixed_workload" THEN "Mixed Workload"
    ELSE "Stress Test"

\* f"{rate*100:.1f}%": the base value as a percentage to the nearest tenth (the
\* base values of the model are whole tenths), and the draw that shifts it
percent(rate) ==
    [ text |-> fixed((rate.base + 5) \div 10, 1) \o "%", draw |-> rate.draw ]

table_row(voltage, frequency, workload, m) ==
    [ DVFS        |-> dvfs_label(voltage, frequency),
      Workload    |-> title(workload),
      IPC         |-> fixed(m.ipc, 3),
      Power       |-> fixed(m.avg_power, 1),
      Energy_Inst |-> fixed(m.energy_per_inst, 4),
      I_Cache_Hit |-> percent(m.icache_hit_rate),
      D_Cache_Hit |-> percent(m.dcache_hit_rate) ]

\* the two loops over selected_points and selected_workloads: one row per pair
\* that has a record, taken from the first record that matches
RECURSIVE TableLoop(_, _, _, _)
TableLoop(rs, k, j, acc) ==
    IF k > Len(selected_points) THEN acc
    ELSE IF j > Len(selected_workloads) THEN TableLoop(rs, k + 1, 1, acc)
    ELSE LET voltage   == selected_points[k][1]
             frequency == selected_points[k][2]
             workload  == selected_workloads[j]
             result    == point_result(rs, voltage, frequency, workload)
         IN  TableLoop(rs, k, j + 1,
                 IF result # 0
                 THEN Append(acc, table_row(voltage, frequency, workload,
                                            rs[result].metrics))
                 ELSE acc)

\* generate_sample_dvfs_data() called once more in the same process: the same
\* arithmetic on the same constants gives the same rounded values as the first
\* call gave (rs), and the cache hit rates take the next draws of the stream
generate_again(rs, drawn) ==
    [ i \in 1..Len(rs) |-> with_cache_hit_rates(rs[i], drawn + 2 * (i - 1)) ]

\* generate_results_table(): it takes no argument and calls load_dvfs_results()
\* itself (line 429), which reads the file again or generates again;
\* table_data[0] raises IndexError when no row was built (line 460)
generate_results_table ==
    /\ pc = "table"
    /\ IF results_file.exists
       THEN /\ table_results' = results_file.contents
            /\ rng' = rng
       ELSE /\ table_results' = generate_again(results, rng)
            /\ rng' = rng + 2 * Len(results)
    /\ table_data' = TableLoop(table_results', 1, 1, <<>>)
    /\ pc' = IF table_data' = <<>> THEN "error" ELSE "done"
    /\ UNCHANGED <<results, genlog, gi, gj, dvfs_points, fig2, fig3, fig5, fig6,
                   results_file, cvars, pvars>>

(***************************************************************************)
(* The power model (lines 77-80) as a function of its inputs.              *)
(***************************************************************************)
power(voltage, frequency, ipc) ==
    [ dynamic_power |-> dynamic_power(voltage, frequency, ipc),
      static_power  |-> static_power(voltage),
      avg_power     |-> avg_power(voltage, frequency, ipc) ]

\* inputs: voltage in tenths of a volt, frequency in steps of 100 MHz, ipc in
\* steps of a quarter (negative and zero values included)
Voltages    == -MaxVolt..MaxVolt
Frequencies == { 100 * k : k \in -MaxFreq..MaxFreq }
Ipcs        == { (IpcDen \div 4) * k : k \in -1..MaxIpc }

PowerInputs == [ voltage : Voltages, frequency : Frequencies, ipc : Ipcs ]

Evaluated(in) == [ in |-> in, out |-> power(in.voltage, in.frequency, in.ipc) ]

PowerIdle ==
    /\ pm_in = [ voltage |-> 1, frequency |-> 1, ipc |-> 0 ]
    /\ pm_out = power(1, 1, 0)
    /\ pm_prev = Evaluated(pm_in)

PowerInit ==
    /\ pm_in \in PowerInputs
    /\ pm_out = power(pm_in.voltage, pm_in.frequency, pm_in.ipc)
    /\ pm_prev = Evaluated(pm_in)

\* the model is evaluated again with one input changed
change_voltage ==
    /\ \E v \in Voltages : pm_in' = [ pm_in EXCEPT !.voltage = v ]
    /\ pm_prev' = [ in |-> pm_in, out |-> pm_out ]
    /\ pm_out' = power(pm_in'.voltage, pm_in'.frequency, pm_in'.ipc)
    /\ UNCHANGED <<avars, cvars>>

change_frequency ==
    /\ \E f \in Frequencies : pm_in' = [ pm_in EXCEPT !.frequency = f ]
    /\ pm_prev' = [ in |-> pm_in, out |-> pm_out ]
    /\ pm_out' = power(pm_in'.voltage, pm_in'.frequency, pm_in'.ipc)
    /\ UNCHANGED <<avars, cvars>>

change_ipc ==
    /\ \E i \in Ipcs : pm_in' = [ pm_in EXCEPT !.ipc = i ]
    /\ pm_prev' = [ in |-> pm_in, out |-> pm_out ]
    /\ pm_out' = power(pm_in'.voltage, pm_in'.frequency, pm_in'.ipc)
    /\ UNCHANGED <<avars, cvars>>

(***************************************************************************)
(* healthcare_iot_config.py: HealthcareIoTSystem.__init__                  *)
(* cpc names the statement that runs next.                                 *)
(***************************************************************************)
\* line 12; also the mutant of system_clock: the minimum DVFS frequency
min_clock == 50

system_clock == 800

\* line 83: the MinorCPU issues at most two instructions per cycle
executeIssueLimit == 2

\* mutant of config_dvfs_points: two rows of the table exchanged
config_dvfs_points_exchanged ==
    << <<6, 50>>, <<7, 100>>, <<9, 400>>, <<8, 200>>, <<10, 600>>, <<12, 800>> >>

\* self.dvfs_points, as (voltage, frequency) in tenths of a volt and MHz
config_dvfs_points ==
    << <<6, 50>>, <<7, 100>>, <<8, 200>>, <<9, 400>>, <<10, 600>>, <<12, 800>> >>

NoClockDomain == [ clock |-> 0, voltage |-> 0 ]

\* the port a name denotes lies on the memory side of its object (it sends
\* requests) or on the cpu side (it receives them)
PortRole(port) ==
    IF port \in { "mem_side", "mem_side_ports", "system_port" }
    THEN "mem_side" ELSE "cpu_side"

\* the port kinds the create_* methods declare
l1_cpu_side_kind == "single"
l1_mem_side_kind == "single"
\* mutant of l2_cpu_side_kind: Port() where the code has VectorPort()
l2_cpu_side_kind_port == "single"
l2_cpu_side_kind == "vector"
l2_mem_side_kind == "single"

\* lhs = rhs on two ports: one connection, oriented mem-side -> cpu-side
Connect(lhs, rhs) ==
    edges' = edges \cup { IF PortRole(lhs[2]) = "mem_side" THEN <<lhs, rhs>>
                          ELSE <<rhs, lhs>> }

Declare(ports) == port_kind' = ports @@ port_kind

ConfigInit ==
    /\ cpc = "clk_domain"
    /\ objects = { "system" }
    /\ children = {}
    /\ port_kind = (<<"system", "system_port">> :> "single")
    /\ edges = {}
    /\ clk_domain = NoClockDomain
    /\ cpu_clk_domain = NoClockDomain
    /\ sys_dvfs_points = <<>>
    /\ cpu_params = [ executeIssueLimit |-> 0 ]
    /\ power_flags = [ enable_clock_gating |-> FALSE, enable_power_gating |-> FALSE ]

\* lines 22-27: the system clock domain at the maximum clock and voltage
set_clk_domain ==
    /\ cpc = "clk_domain"
    /\ clk_domain' = [ clock |-> system_clock, voltage |-> 12 ]
    /\ cpc' = "cpu"
    /\ UNCHANGED <<objects, children, port_kind, edges, cpu_clk_domain,
                   sys_dvfs_points, cpu_params, power_flags, avars, pvars>>

\* line 30: self.cpu = self.create_riscv_cpu()
create_riscv_cpu ==
    /\ cpc = "cpu"
    /\ objects' = objects \cup { "cpu" }
    /\ children' = children \cup { <<"system", "cpu">> }
    /\ cpu_params' = [ executeInputWidth |-> 2, executeIssueLimit |-> 2,
                       executeMemoryIssueLimit |-> 1, executeCommitLimit |-> 2,
                       decodeInputWidth |-> 2 ]
    /\ cpc' = "icache"
    /\ UNCHANGED <<port_kind, edges, clk_domain, cpu_clk_domain, sys_dvfs_points,
                   power_flags, avars, pvars>>

\* line 33: self.cpu.icache = self.create_l1_instruction_cache()
\* the cache becomes an attribute of the cpu; no port is connected
create_l1_instruction_cache ==
    /\ cpc = "icache"
    /\ objects' = objects \cup { "icache" }
    /\ children' = children \cup { <<"cpu", "icache">> }
    /\ Declare((<<"icache", "cpu_side">> :> l1_cpu_side_kind)
                 @@ (<<"icache", "mem_side">> :> l1_mem_side_kind))
    /\ cpc' = "dcache"
    /\ UNCHANGED <<edges, clk_domain, cpu_clk_domain, sys_dvfs_points, cpu_params,
                   power_flags, avars, pvars>>

\* line 34: self.cpu.dcache = self.create_l1_data_cache()
create_l1_data_cache ==
    /\ cpc = "dcache"
    /\ objects' = objects \cup { "dcache" }
    /\ children' = children \cup { <<"cpu", "dcache">> }
    /\ Declare((<<"dcache", "cpu_side">> :> l1_cpu_side_kind)
                 @@ (<<"dcache", "mem_side">> :> l1_mem_side_kind))
    /\ cpc' = "l2cache"
    /\ UNCHANGED <<edges, clk_domain, cpu_clk_domain, sys_dvfs_points, cpu_params,
                   power_flags, avars, pvars>>

\* line 35: self.l2cache = self.create_l2_cache()
create_l2_cache ==
    /\ cpc = "l2cache"
    /\ objects' = objects \cup { "l2cache" }
    /\ children' = children \cup { <<"system", "l2cache">> }
    /\ Declare((<<"l2cache", "cpu_side">> :> l2_cpu_side_kind)
                 @@ (<<"l2cache", "mem_side">> :> l2_mem_side_kind))
    /\ cpc' = "icache_l2"
    /\ UNCHANGED <<edges, clk_domain, cpu_clk_domain, sys_dvfs_points, cpu_params,
                   power_flags, avars, pvars>>

\* line 38: self.cpu.icache.mem_side = self.l2cache.cpu_side
connect_icache_l2 ==
    /\ cpc = "icache_l2"
    /\ Connect(<<"icache", "mem_side">>, <<"l2cache", "cpu_side">>)
    /\ cpc' = "dcache_l2"
    /\ UNCHANGED <<objects, children, port_kind, clk_domain, cpu_clk_domain,
                   sys_dvfs_points, cpu_params, power_flags, avars, pvars>>

\* line 39: self.cpu.dcache.mem_side = self.l2cache.cpu_side
connect_dcache_l2 ==
    /\ cpc = "dcache_l2"
    /\ Connect(<<"dcache", "mem_side">>, <<"l2cache", "cpu_side">>)
    /\ cpc' = "membus"
    /\ UNCHANGED <<objects, children, port_kind, clk_domain, cpu_clk_domain,
                   sys_dvfs_points, cpu_params, power_flags, avars, pvars>>

\* line 42: self.membus = SystemXBar(), a crossbar with two vector ports
create_membus ==
    /\ cpc = "membus"
    /\ objects' = objects \cup { "membus" }
    /\ children' = children \cup { <<"system", "membus">> }
    /\ Declare((<<"membus", "cpu_side_ports">> :> "vector")
                 @@ (<<"membus", "mem_side_ports">> :> "vector"))
    /\ cpc' = "l2_membus"
    /\ UNCHANGED <<edges, clk_domain, cpu_clk_domain, sys_dvfs_points, cpu_params,
                   power_flags, avars, pvars>>

\* line 45: self.l2cache.mem_side = self.membus.cpu_side_ports
connect_l2_membus ==
    /\ cpc = "l2_membus"
    /\ Connect(<<"l2cache", "mem_side">>, <<"membus", "cpu_side_ports">>)
    /\ cpc' = "mem_ctrl"
    /\ UNCHANGED <<objects, children, port_kind, clk_domain, cpu_clk_domain,
                   sys_dvfs_points, cpu_params, power_flags, avars, pvars>>

\* line 48: self.mem_ctrl = self.create_memory_controller()
create_memory_controller ==
    /\ cpc = "mem_ctrl"
    /\ objects' = objects \cup { "mem_ctrl" }
    /\ children' = children \cup { <<"system", "mem_ctrl">> }
    /\ Declare(<<"mem_ctrl", "port">> :> "single")
    /\ cpc' = "mem_ctrl_port"
    /\ UNCHANGED <<edges, clk_domain, cpu_clk_domain, sys_dvfs_points, cpu_params,
                   power_flags, avars, pvars>>

\* line 49: self.mem_ctrl.port = self.membus.mem_side_ports
connect_mem_ctrl ==
    /\ cpc = "mem_ctrl_port"
    /\ Connect(<<"mem_ctrl", "port">>, <<"membus", "mem_side_ports">>)
    /\ cpc' = "system_port"
    /\ UNCHANGED <<objects, children, port_kind, clk_domain, cpu_clk_domain,
                   sys_dvfs_points, cpu_params, power_flags, avars, pvars>>

\* line 52: self.system_port = self.membus.cpu_side_ports
connect_system_port ==
    /\ cpc = "system_port"
    /\ Connect(<<"system", "system_port">>, <<"membus", "cpu_side_ports">>)
    /\ cpc' = "power"
    /\ UNCHANGED <<objects, children, port_kind, clk_domain, cpu_clk_domain,
                   sys_dvfs_points, cpu_params, power_flags, avars, pvars>>

\* line 55: self.configure_power_management()
configure_power_management ==
    /\ cpc = "power"
    /\ sys_dvfs_points' = config_dvfs_points
    /\ cpu_clk_domain' = [ clock |-> system_clock, voltage |-> 12 ]
    /\ power_flags' = [ enable_clock_gating |-> TRUE, enable_power_gating |-> TRUE ]
    /\ cpc' = "built"
    /\ UNCHANGED <<objects, children, port_kind, edges, clk_domain, cpu_params,
                   avars, pvars>>

(***************************************************************************)
(* healthcare_iot_config.py: the script after system = HealthcareIoTSystem()*)
(***************************************************************************)
\* lines 217-220: the workload process is attached to the cpu
set_workload ==
    /\ cpc = "built"
    /\ objects' = objects \cup { "process" }
    /\ children' = children \cup { <<"cpu", "process">> }
    /\ cpc' = "root"
    /\ UNCHANGED <<port_kind, edges, clk_domain, cpu_clk_domain, sys_dvfs_points,
                   cpu_params, power_flags, avars, pvars>>

\* line 223: root = Root(full_system=False, system=system)
create_root ==
    /\ cpc = "root"
    /\ objects' = objects \cup { "root" }
    /\ children' = children \cup { <<"root", "system">> }
    /\ cpc' = "instantiate"
    /\ UNCHANGED <<port_kind, edges, clk_domain, cpu_clk_domain, sys_dvfs_points,
                   cpu_params, power_flags, avars, pvars>>

\* line 226: m5.instantiate() returns, or the library ends the script with a
\* fatal error; the script gives it no argument and reads no result
m5_instantiate ==
    /\ cpc = "instantiate"
    /\ cpc' \in { "simulate", "fatal" }
    /\ UNCHANGED <<objects, children, port_kind, edges, clk_domain, cpu_clk_domain,
                   sys_dvfs_points, cpu_params, power_flags, avars, pvars>>

\* lines 238-239: m5.simulate() runs to an exit event; the configuration has no
\* DVFS handler or governor object that would move a clock domain
m5_simulate ==
    /\ cpc = "simulate"
    /\ cpc' = "exit"
    /\ UNCHANGED <<objects, children, port_kind, edges, clk_domain, cpu_clk_domain,
                   sys_dvfs_points, cpu_params, power_flags, avars, pvars>>

(***************************************************************************)
(* Specifications.                                                         *)
(***************************************************************************)
\* the analysis script
Init == AnalysisInit /\ ConfigInit /\ PowerIdle
Next ==
    \/ load_dvfs_results_file
    \/ load_dvfs_results_missing
    \/ generate_sample_dvfs_data
    \/ plot_dvfs_power_performance
    \/ plot_energy_efficiency
    \/ plot_ipc_comparison
    \/ plot_cache_performance
    \/ plot_power_breakdown
    \/ plot_dvfs_efficiency_curve
    \/ generate_results_table
Spec == Init /\ [][Next]_vars

\* the configuration script, beside the analysis script generating its sample
\* data (no results file)
SystemNext ==
    \/ set_clk_domain
    \/ create_riscv_cpu
    \/ create_l1_instruction_cache
    \/ create_l1_data_cache
    \/ create_l2_cache
    \/ connect_icache_l2
    \/ connect_dcache_l2
    \/ create_membus
    \/ connect_l2_membus
    \/ create_memory_controller
    \/ connect_mem_ctrl
    \/ connect_system_port
    \/ configure_power_management
    \/ set_workload
    \/ create_root
    \/ m5_instantiate
    \/ m5_simulate
    \/ load_dvfs_results_missing
    \/ generate_sample_dvfs_data
SpecSystem == Init /\ [][SystemNext]_vars

\* the power model over a range of inputs
PowerModelInit == AnalysisInit /\ ConfigInit /\ PowerInit
PowerModelNext == change_voltage \/ change_frequency \/ change_ipc
SpecPower == PowerModelInit /\ [][PowerModelNext]_vars

(***************************************************************************)
(* Properties.                                                             *)
(***************************************************************************)
Fig2Ok == "avg_epi" \in DOMAIN fig2
Fig5Ok == "dynamic_power" \in DOMAIN fig5
Fig6Ok == "efficiencies" \in DOMAIN fig6

PointsOf(rs) == { <<rs[i].voltage, rs[i].frequency>> : i \in 1..Len(rs) }

\* the records at point p whose workload is not idle-labelled
ActiveIdx(rs, p) ==
    { i \in 1..Len(rs) : /\ rs[i].voltage = p[1]
                         /\ rs[i].frequency = p[2]
                         /\ rs[i].workload # IDLE }

\* the baseline-workload records at point p
BaselineIdx(rs, p) ==
    { i \in 1..Len(rs) : /\ rs[i].voltage = p[1]
                         /\ rs[i].frequency = p[2]
                         /\ rs[i].workload = BASELINE }

FirstIdx(I) == CHOOSE i \in I : \A j \in I : i <= j

RECURSIVE SumEpi(_, _)
SumEpi(rs, I) ==
    IF I = {} THEN 0
    ELSE LET i == CHOOSE x \in I : TRUE
         IN  rs[i].metrics.energy_per_inst + SumEpi(rs, I \ {i})

\* mean energy per instruction over the non-idle records at p
EpiMean(rs, p) == <<SumEpi(rs, ActiveIdx(rs, p)), Cardinality(ActiveIdx(rs, p))>>

\* ipc / avg_power (times 1000) of the first baseline record at p
BaselineRatio(rs, p) ==
    LET i == FirstIdx(BaselineIdx(rs, p))
    IN  <<10 * rs[i].metrics.ipc, rs[i].metrics.avg_power>>

FAdd(x, y) == Norm(<<x[1] * y[2] + y[1] * x[2], x[2] * y[2]>>)

RECURSIVE SumRatio(_, _)
SumRatio(rs, I) ==
    IF I = {} THEN <<0, 1>>
    ELSE LET i == CHOOSE x \in I : TRUE
         IN  FAdd(<<10 * rs[i].metrics.ipc, rs[i].metrics.avg_power>>,
                  SumRatio(rs, I \ {i}))

\* mean of ipc / avg_power (times 1000) over the non-idle records at p
RatioMean(rs, p) ==
    FDiv(SumRatio(rs, ActiveIdx(rs, p)), <<Cardinality(ActiveIdx(rs, p)), 1>>)

Fig2Point(k) == <<fig2.voltages[k], fig2.frequencies[k]>>
Fig6Point(k) == <<fig6.voltages[k], fig6.frequencies[k]>>
Fig2Selected == Fig2Point(fig2.optimal_idx)
Fig6Selected == Fig6Point(fig6.optimal_idx)

EpiPoints(rs)      == { p \in PointsOf(rs) : ActiveIdx(rs, p) # {} }
BaselinePoints(rs) == { p \in PointsOf(rs) : BaselineIdx(rs, p) # {} }

\* C1: the point plot_energy_efficiency marks has a mean energy per instruction
\* (over its non-idle records) that no other point with non-idle records
\* undercuts, and the point plot_dvfs_efficiency_curve marks has an ipc/power
\* ratio that no other point in its table exceeds.
C1_OptimumIsExtremal ==
    /\ Fig2Ok =>
          /\ Fig2Selected \in EpiPoints(results)
          /\ \A q \in EpiPoints(results) :
                ~FracLess(EpiMean(results, q), EpiMean(results, Fig2Selected))
    /\ Fig6Ok =>
          /\ Fig6Selected \in BaselinePoints(results)
          /\ \A q \in BaselinePoints(results) :
                ~FracLess(BaselineRatio(results, Fig6Selected), BaselineRatio(results, q))

\* both selections were made among several points, and neither is the point
\* of highest frequency
C1_Witness ==
    /\ Fig2Ok /\ Fig6Ok
    /\ \E q \in EpiPoints(results) :
          /\ q[2] > Fig2Selected[2]
          /\ FracLess(EpiMean(results, Fig2Selected), EpiMean(results, q))
    /\ \E q \in BaselinePoints(results) :
          /\ q[2] > Fig6Selected[2]
          /\ FracLess(BaselineRatio(results, q), BaselineRatio(results, Fig6Selected))

\* C2: among the points that tie with the marked point on the criterion, the
\* marked point is the first in (voltage, frequency) order, whatever the order
\* of the records in results.
C2_TieBreakEarliest ==
    /\ Fig2Ok =>
          \A q \in EpiPoints(results) :
             FracEq(EpiMean(results, q), EpiMean(results, Fig2Selected))
                => ~TupleLess(q, Fig2Selected)
    /\ Fig6Ok =>
          \A q \in BaselinePoints(results) :
             FracEq(BaselineRatio(results, q), BaselineRatio(results, Fig6Selected))
                => ~TupleLess(q, Fig6Selected)

\* two points tie on both criteria, and the record of the later point comes
\* first in results
C2_Witness ==
    /\ Fig2Ok /\ Fig6Ok
    /\ \E q \in EpiPoints(results) :
          /\ TupleLess(Fig2Selected, q)
          /\ FracEq(EpiMean(results, q), EpiMean(results, Fig2Selected))
    /\ \E q \in BaselinePoints(results) :
          /\ TupleLess(Fig6Selected, q)
          /\ FracEq(BaselineRatio(results, q), BaselineRatio(results, Fig6Selected))
    /\ \E i, j \in 1..Len(results) :
          /\ i < j
          /\ TupleLess(<<results[j].voltage, results[j].frequency>>,
                       <<results[i].voltage, results[i].frequency>>)

\* C3: each entry of avg_epi is the sum of energy_per_inst over exactly the
\* non-idle records at its point, divided by their number; the table holds
\* each point with a non-idle record once and no other point.
C3_EpiIsMeanOfActive ==
    Fig2Ok =>
       /\ Len(fig2.voltages) = Len(fig2.avg_epi)
       /\ Len(fig2.frequencies) = Len(fig2.avg_epi)
       /\ { Fig2Point(k) : k \in 1..Len(fig2.avg_epi) } = EpiPoints(results)
       /\ Len(fig2.avg_epi) = Cardinality(EpiPoints(results))
       /\ \A k \in 1..Len(fig2.avg_epi) : fig2.avg_epi[k] = EpiMean(results, Fig2Point(k))

\* a point with two non-idle records of different energy_per_inst and an idle
\* record, beside a record of another point
C3_Witness ==
    /\ Fig2Ok
    /\ \E p \in EpiPoints(results) :
          /\ \E i, j \in ActiveIdx(results, p) :
                results[i].metrics.energy_per_inst # results[j].metrics.energy_per_inst
          /\ \E i \in 1..Len(results) :
                /\ <<results[i].voltage, results[i].frequency>> = p
                /\ results[i].workload = IDLE
          /\ PointsOf(results) # {p}

\* C4 as stated: each entry of efficiencies is the mean of ipc / avg_power over
\* all non-idle records at its point.
C4_EfficiencyIsMeanOfActive ==
    Fig6Ok =>
       \A k \in 1..Len(fig6.efficiencies) :
          FracEq(fig6.efficiencies[k], RatioMean(results, Fig6Point(k)))

\* C4 (amended): each entry of efficiencies is ipc / avg_power (times 1000) of
\* the first healthcare_monitor_test record at its point; the table holds each
\* point with such a record once and no other point.
C4_EfficiencyIsBaselineRatio ==
    Fig6Ok =>
       /\ Len(fig6.voltages) = Len(fig6.efficiencies)
       /\ Len(fig6.frequencies) = Len(fig6.efficiencies)
       /\ { Fig6Point(k) : k \in 1..Len(fig6.efficiencies) } = BaselinePoints(results)
       /\ Len(fig6.efficiencies) = Cardinality(BaselinePoints(results))
       /\ \A k \in 1..Len(fig6.efficiencies) :
             fig6.efficiencies[k] = BaselineRatio(results, Fig6Point(k))

\* a point whose baseline record and another non-idle record have different
\* ratios
C4_Witness ==
    /\ Fig6Ok
    /\ \E p \in BaselinePoints(results) :
          \E i \in ActiveIdx(results, p) :
             /\ results[i].workload # BASELINE
             /\ ~FracEq(<<10 * results[i].metrics.ipc, results[i].metrics.avg_power>>,
                        BaselineRatio(results, p))

HasDuplicate(rs) ==
    \E i, j \in 1..Len(rs) :
       /\ i < j
       /\ rs[i].voltage = rs[j].voltage
       /\ rs[i].frequency = rs[j].frequency
       /\ rs[i].workload = rs[j].workload

\* C5: a record list with two records of the same (operating point, workload)
\* is rejected: the script ends in an error and no figure is computed from it.
C5_DuplicateRejected ==
    HasDuplicate(results) => /\ pc = "error"
                             /\ fig2 = NoFigure
                             /\ fig6 = NoFigure

\* the objects an object's mem-side ports lead to
Successors(c) == { e[2][1] : e \in { x \in edges : x[1][1] = c } }

RECURSIVE ReachableFrom(_)
ReachableFrom(S) ==
    LET T == S \cup UNION { Successors(c) : c \in S }
    IN  IF T = S THEN S ELSE ReachableFrom(T)

Reaches(c, d) == d \in ReachableFrom({c})

Components == { "cpu", "icache", "dcache", "l2cache", "membus" }

\* C6: once the system is built, the core, both L1 caches, the L2 cache and the
\* memory bus each reach the memory controller along mem-side -> cpu-side
\* connections.
C6_AllReachMemCtrl ==
    cpc = "built" => \A c \in Components : c \in objects /\ Reaches(c, "mem_ctrl")

ConnectionsAt(p) == { e \in edges : e[1] = p \/ e[2] = p }

\* C7: a port declared single holds at most one connection in every state of
\* the wiring; only vector ports hold more.
C7_PortMultiplicity ==
    /\ \A e \in edges : e[1] \in DOMAIN port_kind /\ e[2] \in DOMAIN port_kind
    /\ \A p \in DOMAIN port_kind :
          port_kind[p] = "single" => Cardinality(ConnectionsAt(p)) <= 1

\* the wiring is complete: the two vector ports with fan-in hold two
\* connections each, every single mem-side port and the controller's port one
C7_Witness ==
    /\ cpc = "built"
    /\ Cardinality(ConnectionsAt(<<"l2cache", "cpu_side">>)) = 2
    /\ Cardinality(ConnectionsAt(<<"membus", "cpu_side_ports">>)) = 2
    /\ Cardinality(ConnectionsAt(<<"icache", "mem_side">>)) = 1
    /\ Cardinality(ConnectionsAt(<<"dcache", "mem_side">>)) = 1
    /\ Cardinality(ConnectionsAt(<<"l2cache", "mem_side">>)) = 1
    /\ Cardinality(ConnectionsAt(<<"mem_ctrl", "port">>)) = 1

StrictlyIncreasing(t) ==
    /\ \A i \in 1..(Len(t) - 1) : t[i][1] < t[i + 1][1] /\ t[i][2] < t[i + 1][2]
    /\ \A i, j \in 1..Len(t) : i # j => t[i] # t[j]

PowerModelHolds ==
    \A i \in 1..Len(genlog) :
       LET l == genlog[i]
       IN  /\ l.dynamic_power = l.voltage * l.voltage * l.frequency * l.base_ipc
           /\ l.static_power * 10 = 5 * l.voltage * PowerDen
           /\ l.avg_power = l.dynamic_power + l.static_power

Fig5Record(k) ==
    point_result(results, fig5.frequencies[k][2], fig5.frequencies[k][1], BASELINE)

TenthOfMilliwatt == PowerDen \div 10

\* C9 as stated: the power model holds, and the breakdown of a generated
\* record's total power returns exactly the model's dynamic and static power.
C9_DecompositionExact ==
    /\ PowerModelHolds
    /\ (Fig5Ok /\ genlog # <<>>) =>
          \A k \in 1..Len(fig5.frequencies) :
             /\ fig5.dynamic_power[k] * TenthOfMilliwatt
                   = genlog[Fig5Record(k)].dynamic_power
             /\ fig5.static_power[k] * TenthOfMilliwatt
                   = genlog[Fig5Record(k)].static_power

Abs(x) == IF x < 0 THEN -x ELSE x

\* C9 (amended): the power model holds; the breakdown returns static = 5 *
\* voltage and dynamic = recorded total - static, which sum to the recorded
\* total; for a generated record the static part is the model's and the dynamic
\* part is within 0.05 mW of the model's (the recorded total is rounded to
\* 0.1 mW).
C9_DecompositionOfRecordedTotal ==
    /\ PowerModelHolds
    /\ Fig5Ok =>
          \A k \in 1..Len(fig5.frequencies) :
             /\ Fig5Record(k) # 0
             /\ fig5.static_power[k] = 5 * fig5.frequencies[k][2]
             /\ fig5.dynamic_power[k] + fig5.static_power[k]
                   = results[Fig5Record(k)].metrics.avg_power
             /\ genlog # <<>> =>
                   /\ fig5.static_power[k] * TenthOfMilliwatt
                         = genlog[Fig5Record(k)].static_power
                   /\ 2 * Abs(fig5.dynamic_power[k] * TenthOfMilliwatt
                              - genlog[Fig5Record(k)].dynamic_power)
                         <= TenthOfMilliwatt

\* the breakdown of generated records, one of which lost part of its dynamic
\* power to rounding
C9_Witness ==
    /\ Fig5Ok
    /\ Len(genlog) = 36
    /\ Len(fig5.frequencies) = 6
    /\ \E k \in 1..Len(fig5.frequencies) :
          fig5.dynamic_power[k] * TenthOfMilliwatt # genlog[Fig5Record(k)].dynamic_power

\* C10: with voltage > 0, frequency > 0 and ipc >= 0, raising the voltage alone
\* or the frequency alone never lowers the total power.
C10_PowerMonotone ==
    LET a == pm_prev.in
        b == pm_in
    IN  /\ ( /\ a.frequency = b.frequency /\ a.ipc = b.ipc
             /\ a.frequency > 0 /\ a.ipc >= 0
             /\ 0 < a.voltage /\ a.voltage <= b.voltage )
           => pm_prev.out.avg_power <= pm_out.avg_power
        /\ ( /\ a.voltage = b.voltage /\ a.ipc = b.ipc
             /\ a.voltage > 0 /\ a.ipc >= 0
             /\ 0 < a.frequency /\ a.frequency <= b.frequency )
           => pm_prev.out.avg_power <= pm_out.avg_power

\* the voltage alone was raised at positive frequency and ipc, and the power
\* rose by more than the leakage alone accounts for
C10_Witness ==
    /\ pm_prev.in.frequency = pm_in.frequency
    /\ pm_prev.in.ipc = pm_in.ipc
    /\ pm_in.frequency > 0
    /\ pm_in.ipc > 0
    /\ 0 < pm_prev.in.voltage
    /\ pm_prev.in.voltage < pm_in.voltage
    /\ pm_out.avg_power - pm_prev.out.avg_power
          > static_power(pm_in.voltage) - static_power(pm_prev.in.voltage)

\* the factor between a generated record's energy and its power times its
\* elapsed time: total_energy / sim_seconds / avg_power
EnergyScale(l) == Norm(FDiv(FDiv(l.total_energy, l.sim_seconds), <<l.avg_power, PowerDen>>))

\* energy_per_inst * sim_insts against total_energy
PerInstructionHolds(l) ==
    Norm(FMul(l.energy_per_inst, <<l.sim_insts, 1>>)) = Norm(l.total_energy)

\* C11 as stated: for every generated record total_energy is avg_power times
\* sim_seconds with no further factor, and energy_per_inst is total_energy
\* divided by the instruction count.
C11_EnergyWithoutScale ==
    \A i \in 1..Len(genlog) :
       /\ EnergyScale(genlog[i]) = <<1, 1>>
       /\ PerInstructionHolds(genlog[i])

\* C11 (amended): for every generated record total_energy is avg_power (mW)
\* times sim_seconds (s) times 1000, i.e. microjoules, and energy_per_inst is
\* total_energy divided by the instruction count; the record stores each of
\* them rounded on its own (2 and 4 decimals) next to the instruction count.
C11_EnergyInMicrojoules ==
    /\ Len(genlog) \in {0, Len(results)}
    /\ \A i \in 1..Len(genlog) :
          /\ EnergyScale(genlog[i]) = <<1000, 1>>
          /\ PerInstructionHolds(genlog[i])
          /\ results[i].metrics.total_energy \in RoundFrac(genlog[i].total_energy, 100)
          /\ results[i].metrics.energy_per_inst
                \in RoundFrac(genlog[i].energy_per_inst, 10000)
          /\ results[i].metrics.sim_insts = genlog[i].sim_insts

\* the generator has built all its records; the first one holds more than one
\* microjoule
C11_Witness ==
    /\ pc = "fig1"
    /\ Len(genlog) = 36
    /\ genlog[1].total_energy[1] > genlog[1].total_energy[2]
    /\ results[1].metrics.total_energy > 0

\* C12: the summary table is computed from the record set the figures were
\* given, and computing it reads no global state again: the record set of
\* generate_results_table is the one generate_all_figures loaded, and the
\* random stream stands where the one generation left it.
C12_TableFromGivenRecords ==
    pc = "done" =>
       /\ table_results = results
       /\ rng = 2 * Len(genlog)

\* power management has been configured: configure_power_management has run
Configured == sys_dvfs_points # <<>>

\* the (voltage, clock) a clock domain is set to
OperatingPoint(domain) == <<domain.voltage, domain.clock>>

InDvfsTable(point) == \E k \in 1..Len(sys_dvfs_points) : sys_dvfs_points[k] = point

\* C13: in every state after power management is configured the operating
\* point of the CPU clock domain and of the system clock domain is a row of the
\* DVFS table, and no later step of the script changes a clock domain or the
\* table.
C13_OperatingPointInTable ==
    /\ [](Configured =>
             /\ InDvfsTable(OperatingPoint(cpu_clk_domain))
             /\ InDvfsTable(OperatingPoint(clk_domain)))
    /\ [][Configured =>
             UNCHANGED <<clk_domain, cpu_clk_domain, sys_dvfs_points>>]_vars

\* the simulation has run to its exit with both domains at the table's last
\* row, 1.2 V and 800 MHz
C13_Witness ==
    /\ cpc = "exit"
    /\ Len(sys_dvfs_points) = 6
    /\ OperatingPoint(cpu_clk_domain) = sys_dvfs_points[6]
    /\ OperatingPoint(clk_domain) = sys_dvfs_points[6]

\* a fraction with a non-zero denominator and a value above zero
Positive(x) == x[2] # 0 /\ ((x[1] > 0 /\ x[2] > 0) \/ (x[1] < 0 /\ x[2] < 0))

\* C14: every record the generator builds, at every operating point of its
\* table and for every workload, has 0 < ipc <= 2 (the issue limit of the
\* configured core) and sim_seconds > 0, unrounded and as recorded; every
\* divisor of its construction (base_ipc, frequency * 1e6 * base_ipc,
\* sim_insts) is non-zero.
C14_RecordsWithinBounds ==
    /\ cpu_params.executeIssueLimit \in { 0, executeIssueLimit }
    /\ Len(genlog) \in { 0, Len(results) }
    /\ \A i \in 1..Len(genlog) :
          LET l == genlog[i]
              m == results[i].metrics
          IN  /\ l.base_ipc > 0
              /\ l.frequency * l.base_ipc # 0
              /\ l.sim_insts > 0
              /\ l.base_ipc <= executeIssueLimit * IpcDen
              /\ Positive(l.sim_seconds)
              /\ m.ipc > 0
              /\ m.ipc <= executeIssueLimit * 1000
              /\ m.sim_seconds > 0

\* the core is configured and all 36 records are built, among them the idle
\* workload at 50 MHz (ipc 0.199) and the stress workload at 800 MHz (ipc
\* 0.892 or 0.893)
C14_Witness ==
    /\ cpu_params.executeIssueLimit = executeIssueLimit
    /\ Len(genlog) = Len(sample_dvfs_points) * Len(workloads)
    /\ \E i \in 1..Len(genlog) :
          /\ genlog[i].workload = IDLE
          /\ genlog[i].frequency = 50
          /\ results[i].metrics.ipc = 199
    /\ \E i \in 1..Len(genlog) :
          /\ genlog[i].workload = "stress_test"
          /\ genlog[i].frequency = 800
          /\ results[i].metrics.ipc \in { 892, 893 }

\* the records are the generator's: it is running or has run
Generated == pc = "generate" \/ genlog # <<>>

RecordKey(r) == <<r.voltage, r.frequency, r.workload>>

\* position of the first operating point equal to p in the generator's table
PointIndex(p) == CHOOSE k \in 1..Len(dvfs_points) :
                    /\ dvfs_points[k] = p
                    /\ \A h \in 1..(k - 1) : dvfs_points[h] # p

\* C15: the generator emits exactly one record for each (operating point,
\* workload) pair: while it runs it has emitted one record per pair passed so
\* far, when it has returned there are |points| * |workloads| records, every
\* pair has a record, no (voltage, frequency, workload) key appears twice, and
\* the records are grouped by operating point in the order of the table.
C15_OneRecordPerPair ==
    Generated =>
       /\ Len(results) = (gi - 1) * Len(workloads) + (gj - 1)
       /\ pc # "generate" =>
             /\ Len(results) = Len(dvfs_points) * Len(workloads)
             /\ \A k \in 1..Len(dvfs_points) : \A j \in 1..Len(workloads) :
                   \E i \in 1..Len(results) :
                      RecordKey(results[i])
                         = <<dvfs_points[k][1], dvfs_points[k][2], workloads[j]>>
       /\ \A i, h \in 1..Len(results) :
             /\ <<results[i].voltage, results[i].frequency>>
                   \in { dvfs_points[k] : k \in 1..Len(dvfs_points) }
             /\ (i # h) => RecordKey(results[i]) # RecordKey(results[h])
       /\ \A i, h \in 1..Len(results) :
             (i < h) => PointIndex(<<results[i].voltage, results[i].frequency>>)
                           <= PointIndex(<<results[h].voltage, results[h].frequency>>)

\* the generator has returned its 36 records: six at 0.6 V / 50 MHz first, six
\* at 1.2 V / 800 MHz last
C15_Witness ==
    /\ pc = "fig1"
    /\ genlog # <<>>
    /\ Len(results) = 36
    /\ RecordKey(results[1]) = <<6, 50, "healthcare_monitor_test">>
    /\ RecordKey(results[6]) = <<6, 50, "stress_test">>
    /\ RecordKey(results[36]) = <<12, 800, "stress_test">>

====
